---------------------------- MODULE Spec2Model ----------------------------
(***************************************************************************)
(* Movie ROI dashboard (App.jsx, its earlier copy part_000, and            *)
(* MovieCharts.jsx).                                                       *)
(*                                                                         *)
(* Text is a sequence of one-character strings.  Numbers produced by       *)
(* parseFloat are integers here (the input alphabets hold no "." and no    *)
(* exponent), and every quotient is an exact rational <<n, d>> with d > 0  *)
(* in lowest terms; IEEE rounding of the JavaScript doubles is not         *)
(* modelled.  Papa.parse itself is the library's: the model starts from    *)
(* results.data, the sequence of raw rows.  A row's 'Release Date' is kept *)
(* as ReleaseYear, the getFullYear() of the parsed date; rows with a text  *)
(* that is no date (toISOString throws on them) are not among the inputs.  *)
(***************************************************************************)
EXTENDS Integers, Sequences, FiniteSets, TLC

VARIABLES variant, csv, pc, pathIdx, movieData, loading, error, filters,
          metrics, charts

vars == <<variant, csv, pc, pathIdx, movieData, loading, error, filters,
          metrics, charts>>

(***************************************************************************)
(* Bounds of the model.                                                    *)
(***************************************************************************)
MaxTextLen == 2
MaxCastLen == 3
MaxActorRows == 3
MaxRankActors == 11
MaxYearRows == 2
YearSpan == 15
MaxAppRows == 3

(***************************************************************************)
(* Exact rationals.                                                        *)
(***************************************************************************)
Abs(n) == IF n < 0 THEN -n ELSE n

RECURSIVE Gcd(_, _)
Gcd(a, b) == IF b = 0 THEN a ELSE Gcd(b, a % b)

Rat(n, d) ==
    LET g == Gcd(Abs(n), Abs(d))
        s == IF d < 0 THEN -1 ELSE 1
    IN  <<(s * n) \div g, (s * d) \div g>>

RInt(n) == <<n, 1>>
RAdd(a, b) == Rat(a[1] * b[2] + b[1] * a[2], a[2] * b[2])
RSub(a, b) == Rat(a[1] * b[2] - b[1] * a[2], a[2] * b[2])
RMul(a, b) == Rat(a[1] * b[1], a[2] * b[2])
RDiv(a, b) == Rat(a[1] * b[2], a[2] * b[1])
RLess(a, b) == a[1] * b[2] < b[1] * a[2]
RLeq(a, b) == a[1] * b[2] <= b[1] * a[2]

(***************************************************************************)
(* JavaScript values and string functions.                                 *)
(***************************************************************************)
\* the value of a column the row does not have
Undefined == <<"undefined">>

Digits == <<"0", "1", "2", "3", "4", "5", "6", "7", "8", "9">>

IsDigit(c) == \E i \in DOMAIN Digits : Digits[i] = c

DigitVal(c) == (CHOOSE i \in DOMAIN Digits : Digits[i] = c) - 1

IsSpace(c) == c = " "

Falsy(value) == value = Undefined \/ value = <<>>

RECURSIVE TrimStart(_)
TrimStart(s) ==
    IF s # <<>> /\ IsSpace(Head(s)) THEN TrimStart(Tail(s)) ELSE s

RECURSIVE TrimEnd(_)
TrimEnd(s) ==
    IF s # <<>> /\ IsSpace(s[Len(s)])
    THEN TrimEnd(SubSeq(s, 1, Len(s) - 1))
    ELSE s

Trim(s) == TrimEnd(TrimStart(s))

RECURSIVE DigitPrefix(_)
DigitPrefix(s) ==
    IF s # <<>> /\ IsDigit(Head(s))
    THEN <<Head(s)>> \o DigitPrefix(Tail(s))
    ELSE <<>>

RECURSIVE DecimalValue(_)
DecimalValue(ds) ==
    IF ds = <<>> THEN 0
    ELSE 10 * DecimalValue(SubSeq(ds, 1, Len(ds) - 1)) + DigitVal(ds[Len(ds)])

\* parseFloat: leading white space, an optional sign, the longest run of
\* digits; NaN when there is no digit
ParseFloat(s) ==
    LET t == TrimStart(s)
        signed == t # <<>> /\ Head(t) \in {"-", "+"}
        body == IF signed THEN Tail(t) ELSE t
        ds == DigitPrefix(body)
        mag == DecimalValue(ds)
    IN  IF ds = <<>> THEN [nan |-> TRUE, val |-> 0]
        ELSE [nan |-> FALSE,
              val |-> IF signed /\ Head(t) = "-" THEN -mag ELSE mag]

\* x || 0 on a number: NaN and 0 are falsy
OrZero(p) == IF p.nan \/ p.val = 0 THEN 0 ELSE p.val

\* value.replace(/[$,]/g, '')
StripCurrency(value) == SelectSeq(value, LAMBDA c : c \notin {"$", ","})

\* castString.replace(/^"|"$/g, '')
StripQuotes(s) ==
    LET a == IF s # <<>> /\ Head(s) = "\"" THEN Tail(s) ELSE s
    IN  IF a # <<>> /\ a[Len(a)] = "\"" THEN SubSeq(a, 1, Len(a) - 1) ELSE a

\* s.split(','): one piece more than there are commas
RECURSIVE Split(_)
Split(s) ==
    IF \A i \in DOMAIN s : s[i] # ","
    THEN <<s>>
    ELSE LET k == CHOOSE i \in DOMAIN s :
                      s[i] = "," /\ \A j \in 1..(i - 1) : s[j] # ","
         IN  <<SubSeq(s, 1, k - 1)>> \o Split(SubSeq(s, k + 1, Len(s)))

MapTrim(pieces) == [i \in DOMAIN pieces |-> Trim(pieces[i])]

(***************************************************************************)
(* App: parsing and normalisation.                                         *)
(***************************************************************************)
parseCurrency(value) ==
    IF Falsy(value) THEN 0 ELSE OrZero(ParseFloat(StripCurrency(value)))

\* parseCast with the empty pieces filtered out
parseCastDroppingEmpty(castString) ==
    IF Falsy(castString) THEN <<>>
    ELSE SelectSeq(MapTrim(Split(StripQuotes(castString))),
                   LAMBDA actor : actor # <<>>)

parseCast(castString) ==
    IF Falsy(castString) THEN <<>>
    ELSE MapTrim(Split(StripQuotes(castString)))

TwoPointFive == <<5, 2>>

\* Roi with 0 for a row without budget
RoiZeroWithoutBudget(budget, boxOffice) ==
    IF budget > 0
    THEN RSub(RMul(RDiv(RInt(boxOffice), RMul(RInt(budget), TwoPointFive)),
                   RInt(100)),
              RInt(100))
    ELSE RInt(0)

Roi(budget, boxOffice) ==
    IF budget > 0
    THEN RSub(RMul(RDiv(RInt(boxOffice), RMul(RInt(budget), TwoPointFive)),
                   RInt(100)),
              RInt(100))
    ELSE RInt(-100)

ProcessRow(movie) ==
    [Studio |-> movie.Studio,
     Franchise |-> movie.Franchise,
     ReleaseYear |-> movie.ReleaseYear,
     AdjustedBudget |-> movie.AdjustedBudget,
     AdjustedBoxOffice |-> movie.AdjustedBoxOffice,
     Cast |-> movie.Cast,
     roi |-> Roi(parseCurrency(movie.AdjustedBudget),
                 parseCurrency(movie.AdjustedBoxOffice)),
     castList |-> parseCast(movie.Cast)]

ProcessedData(data) == [i \in DOMAIN data |-> ProcessRow(data[i])]

(***************************************************************************)
(* App: actor ranking.  actorStats is the Map in insertion order.          *)
(***************************************************************************)
MinMovies == 2
TopCount == 5

HasActor(stats, actor) == \E i \in DOMAIN stats : stats[i].actor = actor

NewStat(actor) ==
    [actor |-> actor, movies |-> 0, totalROI |-> RInt(0),
     averageROI |-> RInt(0)]

\* UpdateStat with totalROI assigned instead of added to
UpdateStatOverwriting(st, roi) ==
    LET m == st.movies + 1
    IN  [actor |-> st.actor, movies |-> m, totalROI |-> roi,
         averageROI |-> RDiv(roi, RInt(m))]

UpdateStat(st, roi) ==
    LET m == st.movies + 1
        t == RAdd(st.totalROI, roi)
    IN  [actor |-> st.actor, movies |-> m, totalROI |-> t,
         averageROI |-> RDiv(t, RInt(m))]

\* the body of movie.castList.forEach
AddActor(stats, actor, roi) ==
    IF actor = <<>> THEN stats
    ELSE LET s1 == IF HasActor(stats, actor) THEN stats
                   ELSE Append(stats, NewStat(actor))
             k == CHOOSE i \in DOMAIN s1 : s1[i].actor = actor
         IN  [s1 EXCEPT ![k] = UpdateStat(s1[k], roi)]

\* (Len(stats) >= 0 only makes the evaluation take stats before it goes on)
RECURSIVE AddCast(_, _, _)
AddCast(stats, castList, roi) ==
    IF Len(stats) >= 0 /\ castList = <<>> THEN stats
    ELSE AddCast(AddActor(stats, Head(castList), roi), Tail(castList), roi)

RECURSIVE ActorStats(_, _)
ActorStats(stats, data) ==
    IF Len(stats) >= 0 /\ data = <<>> THEN stats
    ELSE ActorStats(AddCast(stats, Head(data).castList, Head(data).roi),
                    Tail(data))

\* Qualifies with one movie being enough
QualifiesWithOne(st) == st.movies >= 1

Qualifies(st) == st.movies >= MinMovies

ActorArray(stats) == SelectSeq(stats, Qualifies)

\* comparator (a, b) => b.averageROI - a.averageROI: a negative result keeps a
\* before b
ComesBefore(a, b) == RLess(b.averageROI, a.averageROI)

\* Array.prototype.sort is stable: x goes behind every element it does not
\* come before
RECURSIVE InsertSorted(_, _)
InsertSorted(sorted, x) ==
    IF sorted = <<>> THEN <<x>>
    ELSE IF ComesBefore(x, Head(sorted))
         THEN <<x>> \o sorted
         ELSE <<Head(sorted)>> \o InsertSorted(Tail(sorted), x)

RECURSIVE SortByROI(_)
SortByROI(arr) ==
    IF arr = <<>> THEN <<>>
    ELSE InsertSorted(SortByROI(SubSeq(arr, 1, Len(arr) - 1)), arr[Len(arr)])

Reverse(s) == [i \in DOMAIN s |-> s[Len(s) + 1 - i]]

Min2(a, b) == IF a < b THEN a ELSE b
Max2(a, b) == IF a > b THEN a ELSE b

\* sorted.slice(0, 5)
TopSlice(sorted) == SubSeq(sorted, 1, Min2(TopCount, Len(sorted)))

\* BottomSlice without the reverse
BottomSliceUnreversed(sorted) ==
    SubSeq(sorted, Max2(1, Len(sorted) - TopCount + 1), Len(sorted))

\* sorted.slice(-5).reverse()
BottomSlice(sorted) ==
    Reverse(SubSeq(sorted, Max2(1, Len(sorted) - TopCount + 1), Len(sorted)))

calculateActorMetrics(data) ==
    LET sortedByROI == SortByROI(ActorArray(ActorStats(<<>>, data)))
    IN  [topActors |-> TopSlice(sortedByROI),
         bottomActors |-> BottomSlice(sortedByROI)]

(***************************************************************************)
(* App: filtering and the metrics memo.                                    *)
(***************************************************************************)
\* KeepsMovie with the two tests joined by "or"
KeepsMovieEither(movie, f) ==
    \/ ~(f.studio # "" /\ movie.Studio # f.studio)
    \/ ~(f.franchise # "" /\ movie.Franchise # f.franchise)

KeepsMovie(movie, f) ==
    /\ ~(f.studio # "" /\ movie.Studio # f.studio)
    /\ ~(f.franchise # "" /\ movie.Franchise # f.franchise)

FilteredData(data, f) == SelectSeq(data, LAMBDA movie : KeepsMovie(movie, f))

RECURSIVE SumROI(_)
SumROI(data) ==
    IF data = <<>> THEN RInt(0) ELSE RAdd(Head(data).roi, SumROI(Tail(data)))

Metrics(fd) ==
    IF Len(fd) = 0
    THEN [averageROI |-> RInt(0), topActors |-> <<>>, bottomActors |-> <<>>]
    ELSE LET am == calculateActorMetrics(fd)
         IN  [averageROI |-> RDiv(SumROI(fd), RInt(Len(fd))),
              topActors |-> am.topActors,
              bottomActors |-> am.bottomActors]

(***************************************************************************)
(* MovieCharts: the effect that prepares the chart data.                   *)
(***************************************************************************)
YearStep == 5

NoCharts ==
    [status |-> "unmounted", roiTimeData |-> <<>>, startYear |-> 0,
     endYear |-> 0]

\* movie[...].replace on a missing column throws a TypeError
ChartThrows(movie) ==
    movie.AdjustedBudget = Undefined \/ movie.AdjustedBoxOffice = Undefined

ChartBudget(movie) == OrZero(ParseFloat(StripCurrency(movie.AdjustedBudget)))

ChartBoxOffice(movie) ==
    OrZero(ParseFloat(StripCurrency(movie.AdjustedBoxOffice)))

ChartRoi(budget, boxOffice) ==
    IF budget > 0
    THEN RSub(RMul(RDiv(RInt(boxOffice), RMul(RInt(budget), TwoPointFive)),
                   RInt(100)),
              RInt(100))
    ELSE RInt(-100)

ChartRow(movie) ==
    [year |-> movie.ReleaseYear,
     roi |-> ChartRoi(ChartBudget(movie), ChartBoxOffice(movie)),
     studio |-> IF movie.Studio = "" THEN "Unknown" ELSE movie.Studio,
     franchise |-> IF movie.Franchise = "" THEN "Independent"
                   ELSE movie.Franchise,
     budget |-> ChartBudget(movie),
     boxOffice |-> ChartBoxOffice(movie)]

\* roiTimeData.sort((a, b) => a.date - b.date), stable
RECURSIVE InsertByDate(_, _)
InsertByDate(sorted, x) ==
    IF sorted = <<>> THEN <<x>>
    ELSE IF x.year < Head(sorted).year
         THEN <<x>> \o sorted
         ELSE <<Head(sorted)>> \o InsertByDate(Tail(sorted), x)

RECURSIVE SortByDate(_)
SortByDate(arr) ==
    IF arr = <<>> THEN <<>>
    ELSE InsertByDate(SortByDate(SubSeq(arr, 1, Len(arr) - 1)), arr[Len(arr)])

\* Math.min(...years), Math.max(...years) of a non-empty array
MinYear(rows) ==
    CHOOSE y \in {rows[i].year : i \in DOMAIN rows} :
        \A i \in DOMAIN rows : y <= rows[i].year

MaxYear(rows) ==
    CHOOSE y \in {rows[i].year : i \in DOMAIN rows} :
        \A i \in DOMAIN rows : y >= rows[i].year

\* Math.floor(minYear / 5) * 5
StartYear(minYear) == (minYear \div YearStep) * YearStep

\* EndYear with Math.floor
EndYearFloored(maxYear) == (maxYear \div YearStep) * YearStep

\* Math.ceil(maxYear / 5) * 5
EndYear(maxYear) == (-((-maxYear) \div YearStep)) * YearStep

ChartEffect(prev, data) ==
    IF Len(data) = 0
    THEN [prev EXCEPT !.status = IF @ = "unmounted" THEN "idle" ELSE @]
    ELSE IF \E i \in DOMAIN data : ChartThrows(data[i])
         THEN [prev EXCEPT !.status = "TypeError"]
         ELSE LET roiTimeData == SortByDate([i \in DOMAIN data |->
                                                ChartRow(data[i])])
              IN  [status |-> "drawn",
                   roiTimeData |-> roiTimeData,
                   startYear |-> StartYear(MinYear(roiTimeData)),
                   endYear |-> EndYear(MaxYear(roiTimeData))]

(***************************************************************************)
(* App: what a render after a state change leaves behind.  The two memos   *)
(* run on every render; MovieCharts is mounted only past the two guards.   *)
(***************************************************************************)
DashboardShown(ld, er) == ~ld /\ er = "null"

RenderCharts(prev, md, ld, er, fl) ==
    IF prev.status = "TypeError" THEN prev
    ELSE IF ~DashboardShown(ld, er) THEN NoCharts
         ELSE ChartEffect(prev, FilteredData(md, fl))

RenderMetrics(md, fl) == Metrics(FilteredData(md, fl))

(***************************************************************************)
(* The loaders.  Every action is one run of JavaScript between two awaits, *)
(* followed by the render its state updates cause.  pc is where the async  *)
(* function waits: "fetch" (await fetch), "text" (await response.text()),  *)
(* "done" (returned).                                                      *)
(***************************************************************************)
Variants == {"App.jsx", "part_000"}

NumPaths == 3

\* the movieData the effect's closure holds: that of the first render
ClosureMovieData == <<>>

\* a state update followed by the render
Commit(md, ld, er, fl) ==
    /\ movieData' = md
    /\ loading' = ld
    /\ error' = er
    /\ filters' = fl
    /\ metrics' = RenderMetrics(md, fl)
    /\ charts' = RenderCharts(charts, md, ld, er, fl)

\* App.jsx, after the for loop
AfterLoop(md, ld) ==
    /\ pc' = "done"
    /\ pathIdx' = pathIdx
    /\ IF Len(ClosureMovieData) = 0
       THEN Commit(md, FALSE, "Could not load movie database", filters)
       ELSE Commit(md, ld, error, filters)

\* App.jsx: continue, or the catch block, then the next path if there is one
NextPath ==
    IF pathIdx < NumPaths
    THEN /\ pathIdx' = pathIdx + 1
         /\ pc' = "fetch"
         /\ UNCHANGED <<movieData, loading, error, filters, metrics, charts>>
    ELSE AfterLoop(movieData, loading)

\* part_000: the catch block of loadData
LoadFailed ==
    /\ pc' = "done"
    /\ pathIdx' = pathIdx
    /\ Commit(movieData, FALSE, "Failed to load the movie database", filters)

FetchRejects ==
    /\ pc = "fetch"
    /\ IF variant = "App.jsx" THEN NextPath ELSE LoadFailed
    /\ UNCHANGED <<variant, csv>>

FetchNotOk ==
    /\ pc = "fetch"
    /\ IF variant = "App.jsx" THEN NextPath ELSE LoadFailed
    /\ UNCHANGED <<variant, csv>>

FetchOk ==
    /\ pc = "fetch"
    /\ pc' = "text"
    /\ UNCHANGED <<variant, csv, pathIdx, movieData, loading, error, filters,
                   metrics, charts>>

TextRejects ==
    /\ pc = "text"
    /\ IF variant = "App.jsx" THEN NextPath ELSE LoadFailed
    /\ UNCHANGED <<variant, csv>>

\* App.jsx: Papa.parse calls complete, then break, then the code after the loop
CompleteApp ==
    IF Len(csv) > 0
    THEN AfterLoop(ProcessedData(csv), FALSE)
    ELSE AfterLoop(movieData, loading)

\* part_000: Papa.parse calls complete
CompletePart ==
    /\ pc' = "done"
    /\ pathIdx' = pathIdx
    /\ Commit(ProcessedData(csv), FALSE, error, filters)

TextResolves ==
    /\ pc = "text"
    /\ IF variant = "App.jsx" THEN CompleteApp ELSE CompletePart
    /\ UNCHANGED <<variant, csv>>

(***************************************************************************)
(* The two dropdowns of the dashboard.                                     *)
(***************************************************************************)
StudioOptions == {""} \cup {movieData[i].Studio : i \in DOMAIN movieData}

FranchiseOptions ==
    {""} \cup {movieData[i].Franchise :
                  i \in {j \in DOMAIN movieData :
                            movieData[j].Studio = filters.studio}}

Interactive == DashboardShown(loading, error) /\ charts.status # "TypeError"

\* SetStudio with the franchise kept as it was
SetStudioKeepingFranchise ==
    /\ Interactive
    /\ \E s \in StudioOptions :
          /\ s # filters.studio
          /\ Commit(movieData, loading, error,
                    [studio |-> s, franchise |-> filters.franchise])
    /\ UNCHANGED <<variant, csv, pc, pathIdx>>

SetStudio ==
    /\ Interactive
    /\ \E s \in StudioOptions :
          /\ s # filters.studio
          /\ Commit(movieData, loading, error, [studio |-> s, franchise |-> ""])
    /\ UNCHANGED <<variant, csv, pc, pathIdx>>

SetFranchise ==
    /\ Interactive
    /\ filters.studio # ""
    /\ \E f \in FranchiseOptions :
          /\ f # filters.franchise
          /\ Commit(movieData, loading, error,
                    [studio |-> filters.studio, franchise |-> f])
    /\ UNCHANGED <<variant, csv, pc, pathIdx>>

(***************************************************************************)
(* Inputs: the rows Papa.parse returns.                                    *)
(***************************************************************************)
Texts(alphabet, n) == UNION {[1..k -> alphabet] : k \in 0..n}

RawRow(studio, franchise, year, budget, boxOffice, cast) ==
    [Studio |-> studio, Franchise |-> franchise, ReleaseYear |-> year,
     AdjustedBudget |-> budget, AdjustedBoxOffice |-> boxOffice,
     Cast |-> cast]

SeqsUpTo(S, n) == UNION {[1..k -> S] : k \in 0..n}

\* one row, any two currency fields
CurrencyTexts == Texts({"$", ",", "-", "1", "x"}, MaxTextLen) \cup {Undefined}

CurrencyInputs ==
    {<<RawRow("S1", "F1", 2003, b, o, <<"A">>)>> :
        b \in CurrencyTexts, o \in CurrencyTexts}

\* one row, any Cast field
CastTexts == Texts({"\"", ",", " ", "A", "B"}, MaxCastLen) \cup {Undefined}

CastInputs ==
    {<<RawRow("S1", "F1", 2003, <<"4">>, <<"8">>, c)>> : c \in CastTexts}

\* a few rows over two actors; budget 4 and box office 0, 8, 11 give the
\* rois -100, -20, 10
ActorCasts ==
    {<<"A">>, <<"A", ",", "B">>, <<"A", ",", "A">>, <<"B", ",">>}

ActorBoxOffices == {<<>>, <<"8">>, <<"1", "1">>}

ActorRows ==
    {RawRow("S1", "F1", 2003, <<"4">>, o, c) :
        c \in ActorCasts, o \in ActorBoxOffices}

ActorInputs == SeqsUpTo(ActorRows, MaxActorRows)

\* many actors: two rows with the cast a_1 .. a_n and one row, before or
\* after them, with the cast a_lo .. a_hi
Letters ==
    <<"a", "b", "c", "d", "e", "f", "g", "h", "i", "j", "k", "l", "m", "n">>

RECURSIVE CastOf(_, _)
CastOf(lo, hi) ==
    IF lo > hi THEN <<>>
    ELSE IF lo = hi THEN <<Letters[lo]>>
         ELSE <<Letters[lo], ",">> \o CastOf(lo + 1, hi)

RankRow(lo, hi, o) == RawRow("S1", "F1", 2003, <<"4">>, o, CastOf(lo, hi))

RankInputs ==
    UNION {
      {<<RankRow(1, n, <<"8">>), RankRow(1, n, <<"1", "1">>),
         RankRow(lo, hi, o)>>,
       <<RankRow(lo, hi, o), RankRow(1, n, <<"8">>),
         RankRow(1, n, <<"1", "1">>)>>} :
      n \in 0..MaxRankActors,
      lo \in 1..MaxRankActors, hi \in 0..MaxRankActors,
      o \in {<<>>, <<"8">>, <<"1", "6">>}}

\* a few rows, any release years
Years == 2003..(2003 + YearSpan)

YearInputs ==
    SeqsUpTo({RawRow("S1", "F1", y, <<"4">>, <<"8">>, <<"A">>) : y \in Years},
             MaxYearRows)

\* a few rows, any studios and franchises
AppRows ==
    {RawRow(s, f, 2003, <<"4">>, <<"8">>, <<"A">>) :
        s \in {"S1", "S2"}, f \in {"", "F1", "F2"}}

AppInputs == SeqsUpTo(AppRows, MaxAppRows)

(***************************************************************************)
(* Specifications.                                                         *)
(***************************************************************************)
InitWith(inputs, at) ==
    /\ variant \in Variants
    /\ csv \in inputs
    /\ pc = at
    /\ pathIdx = 1
    /\ movieData = <<>>
    /\ loading = TRUE
    /\ error = "null"
    /\ filters = [studio |-> "", franchise |-> ""]
    /\ metrics = RenderMetrics(<<>>, [studio |-> "", franchise |-> ""])
    /\ charts = NoCharts

\* the whole application, from the mount of App
Init == InitWith(AppInputs, "fetch")

Next ==
    \/ FetchRejects
    \/ FetchNotOk
    \/ FetchOk
    \/ TextRejects
    \/ TextResolves
    \/ SetStudio
    \/ SetFranchise

Spec == Init /\ [][Next]_vars

\* the normalisation and the views of it, from the moment the response of the
\* first path has arrived
Load == TextResolves

SpecCurrency == InitWith(CurrencyInputs, "text") /\ [][Load]_vars
SpecCast == InitWith(CastInputs, "text") /\ [][Load]_vars
SpecActors == InitWith(ActorInputs, "text") /\ [][Load]_vars
SpecRank == InitWith(RankInputs, "text") /\ [][Load]_vars
SpecYears == InitWith(YearInputs, "text") /\ [][Load]_vars

(***************************************************************************)
(* Properties.  Shown is what the memos and the charts are computed from.  *)
(***************************************************************************)
Loaded == pc = "done" /\ movieData # <<>>

Shown == FilteredData(movieData, filters)

BudgetOf(movie) == parseCurrency(movie.AdjustedBudget)

BoxOfficeOf(movie) == parseCurrency(movie.AdjustedBoxOffice)

MinusHundred == <<-100, 1>>

\* r = (boxOffice / (budget * 2.5) * 100) - 100 = (40 boxOffice - 100 budget) / budget
IsRoiOf(r, budget, boxOffice) ==
    IF budget <= 0 THEN r = MinusHundred
    ELSE r[2] > 0 /\ r[1] * budget = (40 * boxOffice - 100 * budget) * r[2]

\* the roi of every loaded row is the formula's value
RoiFormulaHolds ==
    \A i \in DOMAIN movieData :
        IsRoiOf(movieData[i].roi, BudgetOf(movieData[i]),
                BoxOfficeOf(movieData[i]))

\* MovieCharts, when it draws, has recomputed the roi App has stored
ChartsAgreeWhenDrawn ==
    charts.status = "drawn" =>
        /\ Len(charts.roiTimeData) = Len(Shown)
        /\ \A i \in DOMAIN Shown :
               \E j \in DOMAIN charts.roiTimeData :
                   /\ charts.roiTimeData[j].roi = Shown[i].roi
                   /\ charts.roiTimeData[j].budget = BudgetOf(Shown[i])
                   /\ charts.roiTimeData[j].boxOffice = BoxOfficeOf(Shown[i])

\* C1: every normalized row's roi is -100 when its parsed budget is <= 0 and
\* (boxOffice / (budget * 2.5) * 100) - 100 otherwise, and MovieCharts, given
\* the rows the dashboard shows, recomputes the same roi for each of them.
C1_RoiFormulaAndChartsAgree ==
    /\ RoiFormulaHolds
    /\ (DashboardShown(loading, error) /\ Shown # <<>>) =>
           (charts.status = "drawn" /\ ChartsAgreeWhenDrawn)

\* C2 as stated: for every normalized row, roi = -100 exactly when the parsed
\* budget is <= 0.
C2_MinusHundredIffNoBudget ==
    \A i \in DOMAIN movieData :
        (BudgetOf(movieData[i]) <= 0) <=> (movieData[i].roi = MinusHundred)

\* C2 as amended: budget <= 0 implies roi = -100; roi = -100 implies budget <= 0
\* or boxOffice = 0, and every row with budget > 0 and boxOffice = 0 has
\* roi = -100.
C2_MinusHundredIffNoBudgetOrNoBoxOffice ==
    \A i \in DOMAIN movieData :
        LET b == BudgetOf(movieData[i])
            o == BoxOfficeOf(movieData[i])
        IN  (movieData[i].roi = MinusHundred) <=> (b <= 0 \/ o = 0)

C2_Witness ==
    /\ Loaded
    /\ BudgetOf(movieData[1]) > 0
    /\ BoxOfficeOf(movieData[1]) = 0
    /\ movieData[1].roi = MinusHundred

\* C3: whatever text the two currency fields of a row hold, the budget and the
\* box office that currency parsing produces, in App and in MovieCharts, are
\* never negative.
C3_CurrencyNeverNegative ==
    /\ \A i \in DOMAIN movieData :
           BudgetOf(movieData[i]) >= 0 /\ BoxOfficeOf(movieData[i]) >= 0
    /\ \A j \in DOMAIN charts.roiTimeData :
           charts.roiTimeData[j].budget >= 0
           /\ charts.roiTimeData[j].boxOffice >= 0

(***************************************************************************)
(* Counting cast-list entries, said without the Map.                       *)
(***************************************************************************)
Entries(data) ==
    UNION {{<<i, j>> : j \in DOMAIN data[i].castList} : i \in DOMAIN data}

EntriesOf(actor, data) ==
    {e \in Entries(data) : data[e[1]].castList[e[2]] = actor}

EntryCount(actor, data) == Cardinality(EntriesOf(actor, data))

RECURSIVE SumEntries(_, _)
SumEntries(es, data) ==
    IF es = {} THEN RInt(0)
    ELSE LET e == CHOOSE x \in es : TRUE
         IN  RAdd(data[e[1]].roi, SumEntries(es \ {e}, data))

EntryTotal(actor, data) == SumEntries(EntriesOf(actor, data), data)

EntryAverage(actor, data) ==
    RDiv(EntryTotal(actor, data), RInt(EntryCount(actor, data)))

RecordCount(actor, data) ==
    Cardinality({i \in DOMAIN data :
                    \E j \in DOMAIN data[i].castList :
                        data[i].castList[j] = actor})

SeqRange(s) == {s[i] : i \in DOMAIN s}

Ranked == SeqRange(metrics.topActors) \cup SeqRange(metrics.bottomActors)

RankedActors == {e.actor : e \in Ranked}

\* C4: an actor is in topActors or bottomActors only with a movieCount >= 2,
\* where movieCount is the number of cast-list entries equal to the actor over
\* all records, totalROI the sum of the roi of the records of those entries
\* and averageROI their quotient.
C4_RankedHaveTwoEntries ==
    \A e \in Ranked :
        /\ e.actor # <<>>
        /\ EntryCount(e.actor, Shown) >= 2
        /\ e.movies = EntryCount(e.actor, Shown)
        /\ e.totalROI = EntryTotal(e.actor, Shown)
        /\ e.averageROI = EntryAverage(e.actor, Shown)

\* [{cast: [A, B], roi: 10}, {cast: [A], roi: -20}]: A is ranked with the
\* average -5, B is not ranked
C4_Witness ==
    /\ pc = "done"
    /\ Len(movieData) = 2
    /\ movieData[1].castList = <<<<"A">>, <<"B">>>>
    /\ movieData[1].roi = RInt(10)
    /\ movieData[2].castList = <<<<"A">>>>
    /\ movieData[2].roi = RInt(-20)
    /\ metrics.topActors =
           <<[actor |-> <<"A">>, movies |-> 2, totalROI |-> RInt(-10),
              averageROI |-> RInt(-5)]>>
    /\ metrics.bottomActors = metrics.topActors

ActorsIn(data) == {data[e[1]].castList[e[2]] : e \in Entries(data)} \ {<<>>}

Qualifying(data) == {a \in ActorsIn(data) : EntryCount(a, data) >= 2}

EntryBefore(e, f) == e[1] < f[1] \/ (e[1] = f[1] /\ e[2] < f[2])

FirstEntry(actor, data) ==
    CHOOSE e \in EntriesOf(actor, data) :
        \A f \in EntriesOf(actor, data) : e = f \/ EntryBefore(e, f)

\* every qualifying actor with its average and its first entry
Standing(data) ==
    {<<a, EntryAverage(a, data), FirstEntry(a, data)>> :
        a \in Qualifying(data)}

Outranks(u, t) ==
    RLess(t[2], u[2]) \/ (u[2] = t[2] /\ EntryBefore(u[3], t[3]))

Place(t, standing) == 1 + Cardinality({u \in standing : Outranks(u, t)})

\* the entry of a ranked list stands for the qualifying actor t
IsEntryOf(e, t) == e.actor = t[1] /\ e.averageROI = t[2]

ActorsOf(list) == {list[k].actor : k \in DOMAIN list}

\* C6: with n qualifying actors sorted descending by averageROI, topActors is
\* the first min(5, n) of them and bottomActors the last min(5, n) in reverse
\* order, so bottomActors[1] has the lowest average; each list has at most 5
\* entries, they share no actor when n >= 10, and bottomActors is topActors
\* reversed when n <= 5.
C6_TopAndBottomSlices ==
    LET standing == Standing(Shown)
        n == Cardinality(standing)
        top == metrics.topActors
        bottom == metrics.bottomActors
    IN  /\ Len(top) = Min2(5, n)
        /\ Len(bottom) = Min2(5, n)
        /\ \A t \in standing :
               LET p == Place(t, standing)
               IN  /\ p <= 5 => IsEntryOf(top[p], t)
                   /\ p > n - 5 => IsEntryOf(bottom[n + 1 - p], t)
                   /\ n > 0 => RLeq(bottom[1].averageROI, t[2])
        /\ n >= 10 => ActorsOf(top) \cap ActorsOf(bottom) = {}
        /\ n <= 5 => bottom = Reverse(top)

\* ten or more qualifying actors with two different averages: two full lists
\* that share no actor
C6_Witness ==
    /\ pc = "done"
    /\ Cardinality(Qualifying(Shown)) >= 10
    /\ Len(metrics.topActors) = 5
    /\ Len(metrics.bottomActors) = 5
    /\ ActorsOf(metrics.topActors) \cap ActorsOf(metrics.bottomActors) = {}
    /\ RLess(metrics.bottomActors[1].averageROI,
             metrics.topActors[1].averageROI)

\* exactly three qualifying actors, not all with the same average
ThreeQualify ==
    /\ pc = "done"
    /\ Cardinality(Qualifying(Shown)) = 3
    /\ Len(metrics.topActors) = 3
    /\ metrics.bottomActors = Reverse(metrics.topActors)
    /\ RLess(metrics.topActors[3].averageROI, metrics.topActors[1].averageROI)

(***************************************************************************)
(* Filtering.                                                              *)
(***************************************************************************)
StudioValues == {"", "S1", "S2", "S3"}

FranchiseValues == {"", "F1", "F2", "F3"}

Matches(movie, X, Y) ==
    (X = "" \/ movie.Studio = X) /\ (Y = "" \/ movie.Franchise = Y)

Sel(X, Y) == [studio |-> X, franchise |-> Y]

\* s is t with the elements that do not match left out
IsMatchingPart(s, t, X, Y) ==
    /\ \A k \in DOMAIN s : Matches(s[k], X, Y)
    /\ Len(s) = Cardinality({i \in DOMAIN t : Matches(t[i], X, Y)})
    /\ \E f \in [DOMAIN s -> DOMAIN t] :
           /\ \A k \in DOMAIN s : t[f[k]] = s[k]
           /\ \A k, l \in DOMAIN s : k < l => f[k] < f[l]

\* C7: for every studio X and franchise Y, filtering by X and then by Y, or by
\* Y and then by X, gives the records, in order, that filtering once by both
\* gives, which are the records that match both; no predicate gives all the
\* records, and the result is empty when nothing matches.
C7_FilterComposes ==
    \A X \in StudioValues, Y \in FranchiseValues :
        LET both == FilteredData(movieData, Sel(X, Y))
        IN  /\ FilteredData(FilteredData(movieData, Sel(X, "")), Sel("", Y))
                 = both
            /\ FilteredData(FilteredData(movieData, Sel("", Y)), Sel(X, ""))
                 = both
            /\ IsMatchingPart(both, movieData, X, Y)
            /\ FilteredData(movieData, Sel("", "")) = movieData
            /\ (\A i \in DOMAIN movieData : ~Matches(movieData[i], X, Y))
                   => both = <<>>

\* a studio and a franchise are selected, and the two together narrow the
\* records further than either does alone
C7_Witness ==
    /\ pc = "done"
    /\ filters.studio # ""
    /\ filters.franchise # ""
    /\ Shown # <<>>
    /\ Len(Shown) < Len(FilteredData(movieData, Sel(filters.studio, "")))
    /\ Len(Shown) < Len(FilteredData(movieData, Sel("", filters.franchise)))

(***************************************************************************)
(* The time axis.                                                          *)
(***************************************************************************)
ShownYears == {Shown[i].ReleaseYear : i \in DOMAIN Shown}

\* C8: when the chart is drawn, the start year of its domain is the largest
\* multiple of 5 that is <= the least release year and the end year the
\* smallest multiple of 5 that is >= the greatest release year; years from
\* 2003 to 2017 give 2000 and 2020.
C8_DomainRoundsToFive ==
    charts.status = "drawn" =>
        /\ charts.startYear % 5 = 0
        /\ charts.endYear % 5 = 0
        /\ \A y \in ShownYears : charts.startYear <= y /\ y <= charts.endYear
        /\ \E y \in ShownYears : y < charts.startYear + 5
        /\ \E y \in ShownYears : y > charts.endYear - 5
        /\ (2003 \in ShownYears /\ 2017 \in ShownYears
            /\ \A y \in ShownYears : 2003 <= y /\ y <= 2017)
               => (charts.startYear = 2000 /\ charts.endYear = 2020)

C8_Witness ==
    /\ charts.status = "drawn"
    /\ ShownYears = {2003, 2017}
    /\ charts.startYear = 2000
    /\ charts.endYear = 2020

(***************************************************************************)
(* The cast list.                                                          *)
(***************************************************************************)
\* the text between one leading and one trailing quote
Unquoted(c) ==
    LET lo == IF c # <<>> /\ c[1] = "\"" THEN 2 ELSE 1
        hi == IF Len(c) >= lo /\ c[Len(c)] = "\"" THEN Len(c) - 1 ELSE Len(c)
    IN  SubSeq(c, lo, hi)

RECURSIVE Flatten(_)
Flatten(list) ==
    IF list = <<>> THEN <<>> ELSE Head(list) \o Flatten(Tail(list))

Solid(s) == SelectSeq(s, LAMBDA ch : ch # " " /\ ch # ",")

IsTrimmed(name) ==
    /\ \A k \in DOMAIN name : name[k] # ","
    /\ name # <<>> => (name[1] # " " /\ name[Len(name)] # " ")

RowsAvailable ==
    /\ ~loading
    /\ error = "null"
    /\ movieData # <<>>
    /\ movieData = ProcessedData(csv)

LoadHasFailed == ~loading /\ error # "null" /\ movieData = <<>>

\* C10: the loader of App.jsx ends with rows available (loading false, no
\* error, movieData the processed rows) or with the load failed (loading
\* false, error set, movieData empty), and never with the error set over
\* loaded rows.
C10_LoadEndsInOneOutcome ==
    (variant = "App.jsx" /\ pc = "done") =>
        /\ RowsAvailable \/ LoadHasFailed
        /\ ~(error # "null" /\ movieData # <<>>)

(***************************************************************************)
(* The selection of the two dropdowns.                                     *)
(***************************************************************************)
HasStudio(X) == \E i \in DOMAIN movieData : movieData[i].Studio = X

HasPair(X, Y) ==
    \E i \in DOMAIN movieData :
        movieData[i].Studio = X /\ movieData[i].Franchise = Y

\* the selection is one the loaded records offer
SelectionOnRecord ==
    /\ filters.franchise # "" => filters.studio # ""
    /\ filters.studio # "" => HasStudio(filters.studio)
    /\ filters.franchise # "" => HasPair(filters.studio, filters.franchise)
    /\ movieData # <<>> =>
           \E i \in DOMAIN movieData :
               Matches(movieData[i], filters.studio, filters.franchise)
    /\ movieData # <<>> => Shown # <<>>
    /\ metrics = Metrics(Shown)

\* what one change event of a dropdown does to the selection
SelectionStep ==
    /\ filters'.studio # filters.studio => filters'.franchise = ""
    /\ SetStudio => filters'.studio # filters.studio /\ filters'.franchise = ""
    /\ SetFranchise =>
           filters'.studio = filters.studio
               /\ filters'.franchise # filters.franchise
    /\ filters' # filters =>
           /\ SetStudio \/ SetFranchise
           /\ movieData' = movieData
           /\ DashboardShown(loading, error)

\* C11: after any sequence of change events of the studio and the franchise
\* dropdown, a franchise is selected only with a studio, the selected studio
\* and the selected pair occur on a loaded record, and the filtered records
\* are not empty unless the loaded ones are; every studio change resets the
\* franchise to empty, and a franchise change leaves the studio as it was.
C11_SelectionStaysOnLoadedRecords ==
    [] SelectionOnRecord /\ [][SelectionStep]_vars

\* a studio and a franchise are selected that hide some of the records, and
\* another loaded studio has no record of that franchise
C11_Witness ==
    /\ pc = "done"
    /\ filters.studio # ""
    /\ filters.franchise # ""
    /\ Shown # <<>>
    /\ Len(Shown) < Len(movieData)
    /\ \E i \in DOMAIN movieData :
           /\ movieData[i].Studio # filters.studio
           /\ ~HasPair(movieData[i].Studio, filters.franchise)

=============================================================================
